---- MODULE Spec2Model ----
(***************************************************************************)
(* ThreadServices (src/src/services/ThreadServices.ts): the five request   *)
(* handlers add, findAll, findOne, updateOne and deleteOne over the        *)
(* Thread, User and Upload repositories.                                   *)
(*                                                                         *)
(* Every handler is an async function: the code between two awaits is one  *)
(* atomic step, and each awaited repository call is one step of its own,   *)
(* so that the steps of concurrent requests interleave.  A repository call *)
(* either takes effect or is rejected by the store (a generic store        *)
(* error); a rejected call changes nothing.                                *)
(***************************************************************************)
EXTENDS Integers, Sequences, FiniteSets, TLC

\* ---------------------------------------------------------------- bounds
\* requests served concurrently
NumProcs == 2
\* Thread entities built by add in one behaviour
MaxAdds == 1
\* SpecFindAll: the largest initial store
MaxStored == 21

Procs == 1..NumProcs

\* ------------------------------------------------------------ JS values
Null == "null"                  \* null / undefined / SQL NULL
Unloaded == "unloaded"          \* a relation property findOne did not load

\* if (image), if (uploadId): JavaScript truthiness of a string-or-null.
Truthy(v) == v \notin {Null, ""}

Hex == <<"0","1","2","3","4","5","6","7","8","9","a","b","c","d","e","f">>
HexDigit == {Hex[i] : i \in 1..16}

\* The i-th identifier uuidv4() hands out, as its 36 characters.
MkUuid(i) ==
  [k \in 1..36 |->
     IF k \in {9, 14, 19, 24} THEN "-"
     ELSE IF k = 15 THEN "4"
     ELSE IF k = 20 THEN "8"
     ELSE IF k = 36 THEN Hex[(i % 16) + 1]
     ELSE IF k = 35 THEN Hex[((i \div 16) % 16) + 1]
     ELSE "0"]

\* A mutant of the pattern: the version nibble is not checked.
IsUuidV4_AnyVersion(id) ==
  /\ Len(id) = 36
  /\ \A k \in 1..36 :
       IF k \in {9, 14, 19, 24} THEN id[k] = "-"
       ELSE IF k = 20 THEN id[k] \in {"8", "9", "a", "A", "b", "B"}
       ELSE id[k] \in HexDigit

\* /^[a-f\d]{8}-[a-f\d]{4}-4[a-f\d]{3}-[89aAbB][a-f\d]{3}-[a-f\d]{12}$/.test(id)
IsUuidV4(id) ==
  /\ Len(id) = 36
  /\ \A k \in 1..36 :
       IF k \in {9, 14, 19, 24} THEN id[k] = "-"
       ELSE IF k = 15 THEN id[k] = "4"
       ELSE IF k = 20 THEN id[k] \in {"8", "9", "a", "A", "b", "B"}
       ELSE id[k] \in HexDigit

\* A state holds an identifier by name; IdText gives its characters.  Gen(i)
\* names the i-th identifier uuidv4() hands out, whose text is MkUuid(i).
Gen(i) == ToString(i)
GenIndex(name) == CHOOSE i \in 1..255 : ToString(i) = name

\* not-a-uuid
NotAUuid == <<"n","o","t","-","a","-","u","u","i","d">>
\* A version-1 identifier, 00000000-0000-1000-8000-000000000001: well formed
\* but for the version nibble.
UuidV1 == [MkUuid(1) EXCEPT ![15] = "1"]
\* A well-formed identifier that uuidv4() never hands out in a behaviour:
\* f47ac10b-58cc-4372-a567-0e02b2c3d479.
UuidFree ==
  <<"f","4","7","a","c","1","0","b","-","5","8","c","c","-","4","3","7","2","-",
    "a","5","6","7","-","0","e","0","2","b","2","c","3","d","4","7","9">>

IdText(name) ==
  CASE name = "not-a-uuid" -> NotAUuid
    [] name = "v1" -> UuidV1
    [] name = "free" -> UuidFree
    [] OTHER -> MkUuid(GenIndex(name))

NoId == ""

\* ------------------------------------------------------------- parseInt
Digits == <<"0","1","2","3","4","5","6","7","8","9">>
Digit == {Digits[i] : i \in 1..10}
DigitVal(c) == (CHOOSE i \in 1..10 : Digits[i] = c) - 1
WhiteSpace == {" "}

RECURSIVE SkipWs(_, _)
SkipWs(s, k) == IF k <= Len(s) /\ s[k] \in WhiteSpace THEN SkipWs(s, k + 1) ELSE k

\* The digits of s from position k on: how many were read, and their value.
RECURSIVE ReadDigits(_, _, _, _)
ReadDigits(s, k, n, acc) ==
  IF k <= Len(s) /\ s[k] \in Digit
    THEN ReadDigits(s, k + 1, n + 1, acc * 10 + DigitVal(s[k]))
    ELSE [n |-> n, val |-> acc]

\* parseInt(s, 10): leading white space, an optional sign, then the longest
\* run of decimal digits; NaN when there is no digit.
ParseInt(s) ==
  LET k == SkipWs(s, 1)
      signed == k <= Len(s) /\ s[k] \in {"+", "-"}
      neg == signed /\ s[k] = "-"
      d == ReadDigits(s, IF signed THEN k + 1 ELSE k, 0, 0)
  IN  IF d.n = 0 THEN [nan |-> TRUE, val |-> 0]
      ELSE [nan |-> FALSE, val |-> IF neg THEN 0 - d.val ELSE d.val]

\* A query value: absent, a string, or (a repeated parameter) an array.
NoPage == [kind |-> "undefined", s |-> <<>>]
StrPage(s) == [kind |-> "string", s |-> s]
ArrPage == [kind |-> "array", s |-> <<>>]

\* let page = typeof req.query.page === "string" ? parseInt(page, 10) : 1;
\* page = page > 1 ? page : 1;     (NaN > 1 is false)
PageOf(q) ==
  LET parsed == IF q.kind = "string" THEN ParseInt(q.s) ELSE [nan |-> FALSE, val |-> 1]
  IN  IF ~parsed.nan /\ parsed.val > 1 THEN parsed.val ELSE 1

\* take: 10
Take == 10

\* A mutant of the offset: one page too far.
Skip_OffByOne(page) == page * 10

\* skip: page * 10 - 10
Skip(page) == page * 10 - 10

\* ------------------------------------------------------ the entity store
\* A Thread row: id, content, image (Null: none), user (the owner's id, Null:
\* none) and created_at.  The store maps each stored identifier to its row.

\* A mutant of the entity built by add: the image is assigned unconditionally
\* and the content is lost.
NewThread_Swapped(id, content, image, user) ==
  [id |-> id, content |-> image, image |-> image, user |-> user, created_at |-> 0]

\* const thread = new Thread(); thread.id = ...; thread.content = content;
\* if (image) thread.image = image; thread.user = userSelected;
\* created_at 0: not set by the handler, the store stamps it on insert.
NewThread(id, content, image, user) ==
  [id |-> id, content |-> content,
   image |-> IF Truthy(image) THEN image ELSE Null,
   user |-> user, created_at |-> 0]

\* A mutant of the lookup: the where clause is ignored and the first row is
\* returned.
RepoFindOne_AnyRow(store, id) ==
  IF id \in DOMAIN store THEN <<store[id]>>
  ELSE IF DOMAIN store = {} THEN <<>>
  ELSE <<store[CHOOSE k \in DOMAIN store : TRUE]>>

\* Repository.findOne({ where: { id } }): the row, or null (the empty
\* sequence).
RepoFindOne(store, id) ==
  IF id \in DOMAIN store THEN <<store[id]>> ELSE <<>>

\* findOne without relations: the entity's user property is not loaded.
WithoutRelations(found) ==
  IF found = <<>> THEN <<>> ELSE <<[found[1] EXCEPT !.user = Unloaded]>>

\* UserRepository.findOne({ where: { id } }) over the set of user ids.
UserFindOne(us, id) == IF id \in us THEN <<id>> ELSE <<>>

\* Repository.save(entity): the row with the entity's id is looked up; when
\* it exists the entity's loaded properties are written over it, and when it
\* does not the entity is inserted.  A relation that was not loaded is left
\* alone by the update and is NULL in an inserted row.
RepoSave(store, e, now) ==
  IF e.id \in DOMAIN store
    THEN [store EXCEPT ![e.id] =
            [@ EXCEPT !.content = e.content, !.image = e.image,
                      !.user = IF e.user = Unloaded THEN @ ELSE e.user]]
    ELSE store @@ (e.id :>
            [id |-> e.id, content |-> e.content, image |-> e.image,
             user |-> IF e.user = Unloaded THEN Null ELSE e.user,
             created_at |-> IF e.created_at = 0 THEN now ELSE e.created_at])

\* A mutant of delete: the row is kept.
RepoDelete_Keeps(store, id) == store

\* Repository.delete(id): DELETE ... WHERE id = :id.  No row with that id is
\* no error: nothing is deleted.
RepoDelete(store, id) == [k \in DOMAIN store \ {id} |-> store[k]]

\* UploadRepository.delete(uploadId) over the set of upload ids.
UploadDelete(ups, id) == ups \ {id}

\* order: { created_at: "DESC" }
RECURSIVE OrderDesc(_)
OrderDesc(S) ==
  IF S = {} THEN <<>>
  ELSE LET m == CHOOSE t \in S : \A u \in S : u.created_at <= t.created_at
       IN  <<m>> \o OrderDesc(S \ {m})

\* Repository.find({ take, skip, order: { created_at: "DESC" } })
RepoFind(store, take, skip) ==
  LET all == OrderDesc({store[k] : k \in DOMAIN store})
      last == IF skip + take < Len(all) THEN skip + take ELSE Len(all)
  IN  IF skip >= Len(all) THEN <<>> ELSE SubSeq(all, skip + 1, last)

\* ------------------------------------------------------------- responses
NoRes == [status |-> "none", code |-> 0, data |-> <<>>]

\* res.status(code).json({ code, status: "success", ..., data })
Success(code, data) == [status |-> "success", code |-> code, data |-> data]

\* catch (error) { return handleError(res, error); }: the envelope records
\* the class of the error handed over (code 0: chosen by handleError).
handleError(error) == [status |-> error, code |-> 0, data |-> <<>>]

BadRequestError == "BadRequestError"
NotFoundError == "NotFoundError"
\* Whatever a repository call throws: a generic store error.
StoreError == "StoreError"

\* A mutant of the check: a missing user is not noticed.
UserNotFound_Never(userSelected) == FALSE

\* if (!userSelected)
UserNotFound(userSelected) == userSelected = <<>>

\* if (!thread)
ThreadNotFound(thread) == thread = <<>>

\* if (uploadId)
UploadGiven(uploadId) == Truthy(uploadId)

\* A mutant of add's control flow: a rejected save is not noticed (the save
\* is not awaited) and the handler goes on.
AfterSave_Unawaited(ok, uploadId) ==
  IF UploadGiven(uploadId) THEN "add_deleteUpload" ELSE "return"

\* add after "await this.ThreadRepository.save(thread)": a rejected save
\* throws into the catch block; else the Upload is deleted when an uploadId
\* was sent; else the handler returns.
AfterSave(ok, uploadId) ==
  IF ~ok THEN "catch"
  ELSE IF UploadGiven(uploadId) THEN "add_deleteUpload" ELSE "return"

\* ----------------------------------------------------------------- state
VARIABLES
  users,        \* the ids of the stored Users
  uploads,      \* the ids of the stored Uploads
  threads,      \* the stored Threads: identifier -> row
  clock,        \* the store's clock: the created_at of the last insert
  issued,       \* how many identifiers uuidv4() has handed out
  pc,           \* each client's position in the handler of its request
  req,          \* each client's request, while its handler runs
  loc,          \* the handler's local variables
  log,          \* the repository calls the handler has made so far
  out,          \* the last response sent: to which request, after which calls
  lastDeleted,  \* history: the id the last response reports deleted, while
                \*   no handler has moved since that response
  after,        \* history: lastDeleted as each running handler found it on
                \*   arrival, while no other handler has moved since
  born,         \* history: identifier -> the add that inserted it (until deleted)
  touched       \* history: identifiers an updateOne has saved (until deleted)

vars == <<users, uploads, threads, clock, issued, pc, req, loc, log, out,
          lastDeleted, after, born, touched>>

Users0 == {"u1", "u2"}
Uploads0 == {"up1"}

\* The inputs requests are drawn from.
Images == {"", "img.png"}
UploadIds == {Null, "up1"}
\* add: a stored user with every image and uploadId, and an unknown user.
AddInputs ==
  {[auth |-> "u1", content |-> "a", image |-> i, uploadId |-> u] :
     i \in Images, u \in UploadIds}
  \cup {[auth |-> "ghost", content |-> "a", image |-> "img.png", uploadId |-> "up1"]}
NewContents == {"b"}
Pages == {NoPage}
\* The first identifier uuidv4() hands out, one it never hands out, and
\* malformed ones.
ThreadIds == {Gen(1), "free", "v1"}
FindIds == ThreadIds \cup {"not-a-uuid"}

NoReq == [op |-> "none", auth |-> Null, content |-> Null, image |-> Null,
          uploadId |-> Null, page |-> NoPage, threadId |-> NoId]
NoLoc == [user |-> <<>>, thread |-> <<>>]
NoOut == [req |-> NoReq, res |-> NoRes, log |-> <<>>, after |-> NoId]

Entry(call, ok) == [call |-> call, ok |-> ok]

Init ==
  /\ users = Users0
  /\ uploads = Uploads0
  /\ threads = <<>>
  /\ clock = 0
  /\ issued = 0
  /\ pc = [p \in Procs |-> "idle"]
  /\ req = [p \in Procs |-> NoReq]
  /\ loc = [p \in Procs |-> NoLoc]
  /\ log = [p \in Procs |-> <<>>]
  /\ out = NoOut
  /\ lastDeleted = NoId
  /\ after = [p \in Procs |-> NoId]
  /\ born = <<>>
  /\ touched = {}

\* A request arrives and is given to the first client that is not inside a
\* handler (clients are interchangeable).  A handler's code up to its first
\* await reads nothing but the request: it is part of the step of the
\* handler's first repository call.
Arrive(p) ==
  /\ pc[p] = "idle"
  /\ \A q \in Procs : q < p => pc[q] # "idle"

\* What the handler of client p knows of the response just before its arrival.
After(p) == IF pc[p] = "idle" THEN lastDeleted ELSE after[p]

\* The handler of client p, serving request r having made the repository
\* calls calls, suspends at position next with the locals l.
Goto(p, r, next, l, calls) ==
  /\ pc' = [pc EXCEPT ![p] = next]
  /\ req' = [req EXCEPT ![p] = r]
  /\ loc' = [loc EXCEPT ![p] = l]
  /\ log' = [log EXCEPT ![p] = calls]
  /\ after' = [q \in Procs |-> IF q = p THEN After(p) ELSE NoId]
  /\ lastDeleted' = NoId
  /\ UNCHANGED out

\* The handler of client p answers request r with a, having made the
\* repository calls calls; its locals are gone.
Respond(p, r, a, calls) ==
  /\ pc' = [pc EXCEPT ![p] = "idle"]
  /\ req' = [req EXCEPT ![p] = NoReq]
  /\ loc' = [loc EXCEPT ![p] = NoLoc]
  /\ log' = [log EXCEPT ![p] = <<>>]
  /\ out' = [req |-> r, res |-> a, log |-> calls, after |-> After(p)]
  /\ after' = [q \in Procs |-> NoId]
  /\ lastDeleted' = IF r.op = "deleteOne" /\ a.status = "success"
                      THEN r.threadId ELSE NoId

\* ------------------------------------------------------------------- add
\* await this.UserRepository.findOne(...); if (!userSelected) throw ...;
\* then the Thread entity is built, up to the await of save.
add(p, auth, content, image, uploadId) ==
  /\ Arrive(p)
  /\ issued < MaxAdds
  /\ \E ok \in BOOLEAN :
       LET r == [NoReq EXCEPT !.op = "add", !.auth = auth, !.content = content,
                              !.image = image, !.uploadId = uploadId]
           userSelected == UserFindOne(users, auth)
           owner == IF userSelected = <<>> THEN Null ELSE userSelected[1]
           calls == <<Entry("User.findOne", ok)>>
       IN  IF ~ok
             THEN Respond(p, r, handleError(StoreError), calls)
                  /\ UNCHANGED issued
           ELSE IF UserNotFound(userSelected)
             THEN Respond(p, r, handleError(NotFoundError), calls)
                  /\ UNCHANGED issued
           ELSE /\ issued' = issued + 1
                /\ Goto(p, r, "add_save",
                        [NoLoc EXCEPT !.user = userSelected,
                                      !.thread = <<NewThread(Gen(issued + 1),
                                                     content, image, owner)>>],
                        calls)
  /\ UNCHANGED <<users, uploads, threads, clock, born, touched>>

\* await this.ThreadRepository.save(thread); then "if (uploadId)".
addSave(p) ==
  /\ pc[p] = "add_save"
  /\ \E ok \in BOOLEAN :
       LET e == loc[p].thread[1]
           next == AfterSave(ok, req[p].uploadId)
           calls == Append(log[p], Entry("Thread.save", ok))
       IN  /\ threads' = IF ok THEN RepoSave(threads, e, clock + 1) ELSE threads
           /\ clock' = IF ok THEN clock + 1 ELSE clock
           /\ born' = IF ok
                        THEN (e.id :> [content |-> req[p].content,
                                       image |-> req[p].image,
                                       user |-> req[p].auth,
                                       ok |-> next = "return"]) @@ born
                        ELSE born
           /\ IF next = "catch"
                THEN Respond(p, req[p], handleError(StoreError), calls)
              ELSE IF next = "return"
                THEN Respond(p, req[p], Success(201, <<>>), calls)
              ELSE Goto(p, req[p], next, loc[p], calls)
  /\ UNCHANGED <<users, uploads, issued, touched>>

\* await this.UploadRepository.delete(uploadId); return res.status(201)...
addDeleteUpload(p) ==
  /\ pc[p] = "add_deleteUpload"
  /\ \E ok \in BOOLEAN :
       LET id == loc[p].thread[1].id
           calls == Append(log[p], Entry("Upload.delete", ok))
       IN  /\ uploads' = IF ok THEN UploadDelete(uploads, req[p].uploadId) ELSE uploads
           /\ born' = IF ok /\ id \in DOMAIN born
                        THEN [born EXCEPT ![id].ok = TRUE] ELSE born
           /\ Respond(p, req[p],
                      IF ok THEN Success(201, <<>>) ELSE handleError(StoreError),
                      calls)
  /\ UNCHANGED <<users, threads, clock, issued, touched>>

\* --------------------------------------------------------------- findAll
\* page is computed; await this.ThreadRepository.find({ take: 10,
\* skip: page * 10 - 10, order }); return res.status(200)... data: threads
findAll(p, query) ==
  /\ Arrive(p)
  /\ \E ok \in BOOLEAN :
       LET page == PageOf(query)
       IN  Respond(p, [NoReq EXCEPT !.op = "findAll", !.page = query],
                   IF ok THEN Success(200, RepoFind(threads, Take, Skip(page)))
                         ELSE handleError(StoreError),
                   <<Entry("Thread.find", ok)>>)
  /\ UNCHANGED <<users, uploads, threads, clock, issued, born, touched>>

\* --------------------------------------------------------------- findOne
\* The id is tested; await this.ThreadRepository.findOne({ where: { id },
\* relations }); if (!thread) throw ...; return res.status(200)... data: thread
findOne(p, threadId) ==
  /\ Arrive(p)
  /\ LET r == [NoReq EXCEPT !.op = "findOne", !.threadId = threadId]
     IN  IF ~IsUuidV4(IdText(threadId))
           THEN Respond(p, r, handleError(BadRequestError), <<>>)
           ELSE \E ok \in BOOLEAN :
                  LET thread == RepoFindOne(threads, threadId)
                  IN  Respond(p, r,
                              IF ~ok THEN handleError(StoreError)
                              ELSE IF ThreadNotFound(thread)
                                THEN handleError(NotFoundError)
                              ELSE Success(200, thread),
                              <<Entry("Thread.findOne", ok)>>)
  /\ UNCHANGED <<users, uploads, threads, clock, issued, born, touched>>

\* ------------------------------------------------------------- updateOne
\* The id is tested; await this.ThreadRepository.findOne({ where: { id } });
\* if (!thread) throw ...; thread.content = content;
updateOne(p, threadId, content) ==
  /\ Arrive(p)
  /\ LET r == [NoReq EXCEPT !.op = "updateOne", !.threadId = threadId,
                            !.content = content]
     IN  IF ~IsUuidV4(IdText(threadId))
           THEN Respond(p, r, handleError(BadRequestError), <<>>)
           ELSE \E ok \in BOOLEAN :
                  LET thread == WithoutRelations(RepoFindOne(threads, threadId))
                      calls == <<Entry("Thread.findOne", ok)>>
                  IN  IF ~ok
                        THEN Respond(p, r, handleError(StoreError), calls)
                      ELSE IF ThreadNotFound(thread)
                        THEN Respond(p, r, handleError(NotFoundError), calls)
                      ELSE Goto(p, r, "updateOne_save",
                                [NoLoc EXCEPT !.thread =
                                   <<[thread[1] EXCEPT !.content = content]>>],
                                calls)
  /\ UNCHANGED <<users, uploads, threads, clock, issued, born, touched>>

\* await this.ThreadRepository.save(thread); return res.status(200)...
updateOneSave(p) ==
  /\ pc[p] = "updateOne_save"
  /\ \E ok \in BOOLEAN :
       LET e == loc[p].thread[1]
       IN  /\ threads' = IF ok THEN RepoSave(threads, e, clock + 1) ELSE threads
           /\ touched' = IF ok THEN touched \cup {e.id} ELSE touched
           /\ Respond(p, req[p],
                      IF ok THEN Success(200, <<>>) ELSE handleError(StoreError),
                      Append(log[p], Entry("Thread.save", ok)))
  /\ UNCHANGED <<users, uploads, clock, issued, born>>

\* ------------------------------------------------------------- deleteOne
\* The id is tested; await this.ThreadRepository.findOne({ where: { id } });
\* if (!thread) throw ...
deleteOne(p, threadId) ==
  /\ Arrive(p)
  /\ LET r == [NoReq EXCEPT !.op = "deleteOne", !.threadId = threadId]
     IN  IF ~IsUuidV4(IdText(threadId))
           THEN Respond(p, r, handleError(BadRequestError), <<>>)
           ELSE \E ok \in BOOLEAN :
                  LET thread == WithoutRelations(RepoFindOne(threads, threadId))
                      calls == <<Entry("Thread.findOne", ok)>>
                  IN  IF ~ok
                        THEN Respond(p, r, handleError(StoreError), calls)
                      ELSE IF ThreadNotFound(thread)
                        THEN Respond(p, r, handleError(NotFoundError), calls)
                      ELSE Goto(p, r, "deleteOne_delete",
                                [NoLoc EXCEPT !.thread = thread], calls)
  /\ UNCHANGED <<users, uploads, threads, clock, issued, born, touched>>

\* await this.ThreadRepository.delete(threadId); return res.status(200)...
deleteOneDelete(p) ==
  /\ pc[p] = "deleteOne_delete"
  /\ \E ok \in BOOLEAN :
       LET id == req[p].threadId
       IN  /\ threads' = IF ok THEN RepoDelete(threads, id) ELSE threads
           /\ touched' = IF ok THEN touched \ {id} ELSE touched
           /\ born' = IF ok THEN [k \in DOMAIN born \ {id} |-> born[k]] ELSE born
           /\ Respond(p, req[p],
                      IF ok THEN Success(200, <<>>) ELSE handleError(StoreError),
                      Append(log[p], Entry("Thread.delete", ok)))
  /\ UNCHANGED <<users, uploads, clock, issued>>

\* ---------------------------------------------------------- specification
Next ==
  \E p \in Procs :
    \/ \E i \in AddInputs : add(p, i.auth, i.content, i.image, i.uploadId)
    \/ addSave(p)
    \/ addDeleteUpload(p)
    \/ \E query \in Pages : findAll(p, query)
    \/ \E threadId \in FindIds : findOne(p, threadId)
    \/ \E threadId \in ThreadIds, content \in NewContents : updateOne(p, threadId, content)
    \/ updateOneSave(p)
    \/ \E threadId \in ThreadIds : deleteOne(p, threadId)
    \/ deleteOneDelete(p)

Spec == Init /\ [][Next]_vars

\* ------------------------------------------------- findAll on large stores
\* A store of n Threads, as n adds leave it: their saves ran in another order
\* than their identifiers were handed out.
Stamp(i) == (i * 7) % 23
StoredRow(i) ==
  [id |-> Gen(i), content |-> "a", image |-> Null, user |-> "u1",
   created_at |-> Stamp(i)]

\* The values of req.query.page: absent, a repeated parameter, and strings.
AllPages ==
  {NoPage, ArrPage}
  \cup {StrPage(t) : t \in {<<>>, <<"a","b","c">>, <<"-","1">>, <<"0">>, <<"1">>,
                            <<"2">>, <<"3">>, <<"4">>, <<"2","x">>, <<" ","2">>,
                            <<"+","3">>}}

InitFindAll ==
  \E n \in 0..MaxStored :
    LET ids == {Gen(i) : i \in 1..n}
        stamps == {Stamp(i) : i \in 1..n} \cup {0}
    IN  /\ users = Users0
        /\ uploads = Uploads0
        /\ threads = [id \in ids |-> StoredRow(GenIndex(id))]
        /\ clock = CHOOSE m \in stamps : \A t \in stamps : t <= m
        /\ issued = n
        /\ pc = [p \in Procs |-> "idle"]
        /\ req = [p \in Procs |-> NoReq]
        /\ loc = [p \in Procs |-> NoLoc]
        /\ log = [p \in Procs |-> <<>>]
        /\ out = NoOut
        /\ lastDeleted = NoId
        /\ after = [p \in Procs |-> NoId]
        /\ born = [id \in ids |-> [content |-> "a", image |-> "", user |-> "u1",
                                   ok |-> TRUE]]
        /\ touched = {}

NextFindAll == \E p \in Procs, query \in AllPages : findAll(p, query)

SpecFindAll == InitFindAll /\ [][NextFindAll]_vars

\* ================================================================ properties
\* A repository call of the kind call, with the outcome ok, is among calls.
HasCall(calls, call, ok) == \E k \in 1..Len(calls) : calls[k] = Entry(call, ok)
\* One of the repository calls was rejected by the store.
Faulted(calls) == \E k \in 1..Len(calls) : ~calls[k].ok
\* The operations that take a Thread identifier.
IdOps == {"findOne", "updateOne", "deleteOne"}
\* The request identifiers that are not in the version-4 form.
Malformed == {"not-a-uuid", "v1"}

\* C1: findOne, updateOne and deleteOne answer a malformed identifier with a
\* bad-request error, having made no repository call: no handler runs on with
\* such an identifier, and users, uploads and threads are as before.
C1_MalformedIdBadRequest ==
  [][ /\ \A p \in Procs : pc'[p] # "idle" => req'[p].threadId \notin Malformed
      /\ (out'.req.op \in IdOps /\ out'.req.threadId \in Malformed)
           => /\ out'.res = handleError(BadRequestError)
              /\ out'.log = <<>>
      /\ (pc' = pc /\ out'.req.op \in IdOps /\ out'.req.threadId \in Malformed)
           => UNCHANGED <<users, uploads, threads>>
    ]_vars

\* C1 happens: deleteOne was refused a version-1 identifier while a Thread
\* was stored.
C1_Witness ==
  /\ out.req.op = "deleteOne"
  /\ out.req.threadId = "v1"
  /\ out.res.status = BadRequestError
  /\ DOMAIN threads # {}

\* C2: add for an authUserId that names no stored User answers not-found
\* after the user lookup alone (unless the lookup itself was rejected): the
\* handler never reaches the Thread write or the Upload delete, and threads
\* and uploads are as before.
C2_UnknownUserNotFound ==
  [][ /\ \A p \in Procs :
           (pc'[p] # "idle" /\ req'[p].op = "add") => req'[p].auth \in users'
      /\ (out'.req.op = "add" /\ out'.req.auth \notin users' /\ ~Faulted(out'.log))
           => /\ out'.res = handleError(NotFoundError)
              /\ out'.log = <<Entry("User.findOne", TRUE)>>
      /\ (pc' = pc /\ out'.req.op = "add" /\ out'.req.auth \notin users)
           => UNCHANGED <<threads, uploads>>
    ]_vars

\* C2 happens: an add for an unknown user that named a stored Upload was
\* answered not-found, and the Upload is still stored.
C2_Witness ==
  /\ out.req.op = "add"
  /\ out.req.auth \notin users
  /\ out.res.status = NotFoundError
  /\ out.req.uploadId \in uploads

\* C3: a deleteOne that reaches its delete and is not rejected by the store
\* answers 200 and the Thread is gone from the store; a deleteOne for the
\* same identifier that arrives directly after that answer, before any other
\* handler has moved, never reaches its delete and answers not-found.
C3_DeleteTwice ==
  [][ /\ \A p \in Procs :
           (pc[p] = "deleteOne_delete" /\ pc'[p] = "idle"
              /\ out'.res.status # StoreError)
             => /\ out'.res = Success(200, <<>>)
                /\ req[p].threadId \notin DOMAIN threads'
      /\ \A p \in Procs :
           pc'[p] = "deleteOne_delete" => after'[p] # req'[p].threadId
      /\ (out'.req.op = "deleteOne" /\ out'.after = out'.req.threadId
            /\ out'.res.status # StoreError)
           => out'.res = handleError(NotFoundError)
      /\ (pc' = pc /\ out'.req.op = "deleteOne"
            /\ out'.res.status = NotFoundError)
           => out'.req.threadId \notin DOMAIN threads
    ]_vars

\* C3 happens: a deleteOne that arrived directly after the successful
\* deleteOne of the same identifier was answered not-found.
C3_Witness ==
  /\ out.req.op = "deleteOne"
  /\ out.after = out.req.threadId
  /\ out.res.status = NotFoundError

\* C4: updateOne and deleteOne on a well-formed identifier that no stored
\* Thread has answer not-found (unless the lookup was rejected) and leave the
\* store as it was; a handler goes on to its write only for an identifier
\* that a stored Thread has, so updateOne creates nothing.
C4_UnassignedNotFound ==
  [][ /\ \A p \in Procs :
           (pc[p] = "idle" /\ pc'[p] \in {"updateOne_save", "deleteOne_delete"})
             => req'[p].threadId \in DOMAIN threads
      /\ (pc' = pc /\ out'.req.op \in {"updateOne", "deleteOne"}
            /\ out'.req.threadId \notin Malformed
            /\ out'.req.threadId \notin DOMAIN threads
            /\ ~Faulted(out'.log))
           => /\ out'.res = handleError(NotFoundError)
              /\ UNCHANGED <<users, uploads, threads>>
    ]_vars

\* C4 happens: updateOne on an identifier no Thread has was answered
\* not-found while another Thread was stored.
C4_Witness ==
  /\ out.req.op = "updateOne"
  /\ out.req.threadId = "free"
  /\ out.res.status = NotFoundError
  /\ DOMAIN threads # {}
  /\ "free" \notin DOMAIN threads

\* C5: an add with an uploadId that answers 201 leaves no Upload of
\* that id; and an add whose Upload delete was rejected still answers 201.
C5_Reports201 ==
  /\ (out.req.op = "add" /\ out.res.status = "success" /\ Truthy(out.req.uploadId))
       => out.req.uploadId \notin uploads
  /\ (out.req.op = "add" /\ HasCall(out.log, "Upload.delete", FALSE))
       => out.res = Success(201, <<>>)

\* C6 as stated: every stored Thread has an owner, a stored User, and it is the
\* user of the add that created the Thread.
C6_OwnerNeverChanges ==
  \A id \in DOMAIN threads :
    /\ threads[id].user \in users
    /\ id \in DOMAIN born
    /\ threads[id].user = born[id].user

\* C7: findOne on the identifier of a Thread whose add answered 201, with no
\* updateOne or deleteOne of it since, answers 200 (unless the lookup was
\* rejected) with the content given to add, and with the image given to add
\* when that was not empty; an empty image reads back as none.
C7_AddThenFindOne ==
  [][ \A id \in DOMAIN born :
        (pc' = pc /\ out'.req.op = "findOne" /\ out'.req.threadId = id
           /\ born[id].ok /\ id \notin touched /\ ~Faulted(out'.log))
          => /\ out'.res.status = "success"
             /\ out'.res.code = 200
             /\ Len(out'.res.data) = 1
             /\ out'.res.data[1].content = born[id].content
             /\ out'.res.data[1].image =
                  IF born[id].image = "" THEN Null ELSE born[id].image
    ]_vars

\* C7 happens: findOne returned the Thread of an add that was given an empty
\* image; the image read back is none.
C7_Witness ==
  /\ out.req.op = "findOne"
  /\ out.res.status = "success"
  /\ out.req.threadId \in DOMAIN born
  /\ born[out.req.threadId].ok
  /\ out.req.threadId \notin touched
  /\ born[out.req.threadId].image = ""
  /\ out.res.data[1].image = Null

\* C7 as stated: that findOne answers 200 with the content and the image
\* given to add.
C7_ImageAsGiven ==
  [][ \A id \in DOMAIN born :
        (pc' = pc /\ out'.req.op = "findOne" /\ out'.req.threadId = id
           /\ born[id].ok /\ id \notin touched /\ ~Faulted(out'.log))
          => /\ out'.res.status = "success"
             /\ out'.res.code = 200
             /\ Len(out'.res.data) = 1
             /\ out'.res.data[1].content = born[id].content
             /\ out'.res.data[1].image = born[id].image
    ]_vars

\* C9 as stated: when the write of an updateOne or deleteOne finds its Thread
\* gone since the lookup, the handler answers with the store error and the
\* Thread is still not stored.
C9_RaceIsStoreError ==
  [][ \A p \in Procs :
        (pc[p] \in {"updateOne_save", "deleteOne_delete"} /\ pc'[p] = "idle"
           /\ req[p].threadId \notin DOMAIN threads)
          => /\ out'.res = handleError(StoreError)
             /\ req[p].threadId \notin DOMAIN threads'
    ]_vars

\* C10: in the calls of any one add the Upload delete occurs at most once and
\* directly after a Thread write that succeeded, so never after a failed
\* user lookup or a rejected write; uploads change only in that step of an
\* add, and that step, rejected or not, leaves threads as they are.
C10_UploadDeleteOrder ==
  [][ /\ \A calls \in {log'[p] : p \in Procs} \cup {out'.log} :
           \A k \in 1..Len(calls) :
             calls[k].call = "Upload.delete"
               => /\ k > 1
                  /\ calls[k - 1] = Entry("Thread.save", TRUE)
                  /\ \A j \in 1..Len(calls) :
                       calls[j].call = "Upload.delete" => j = k
      /\ uploads' # uploads
           => \E p \in Procs : /\ pc[p] = "add_deleteUpload"
                               /\ pc'[p] = "idle"
                               /\ HasCall(log[p], "Thread.save", TRUE)
      /\ \A p \in Procs :
           (pc[p] = "add_deleteUpload" /\ pc'[p] = "idle") => threads' = threads
      /\ (out'.req.op = "add"
            /\ (out'.res.status = NotFoundError
                  \/ HasCall(out'.log, "Thread.save", FALSE)))
           => \A k \in 1..Len(out'.log) : out'.log[k].call # "Upload.delete"
    ]_vars

\* C10 happens: an add deleted its Upload after its Thread write and answered
\* 201.
C10_Witness ==
  /\ out.req.op = "add"
  /\ out.log = <<Entry("User.findOne", TRUE), Entry("Thread.save", TRUE),
                 Entry("Upload.delete", TRUE)>>
  /\ out.res.status = "success"
  /\ out.req.uploadId \notin uploads

\* The stored Threads that come before row t in created_at-descending order.
Newer(t) == Cardinality({k \in DOMAIN threads : threads[k].created_at > t.created_at})

\* The page that a value of req.query.page asks for.
PageCases ==
  {[query |-> NoPage, page |-> 1],
   [query |-> ArrPage, page |-> 1],
   [query |-> StrPage(<<>>), page |-> 1],
   [query |-> StrPage(<<"a","b","c">>), page |-> 1],
   [query |-> StrPage(<<"-","1">>), page |-> 1],
   [query |-> StrPage(<<"0">>), page |-> 1],
   [query |-> StrPage(<<"1">>), page |-> 1],
   [query |-> StrPage(<<"2">>), page |-> 2],
   [query |-> StrPage(<<"3">>), page |-> 3],
   [query |-> StrPage(<<"4">>), page |-> 4]}

\* C8: findAll returns at most 10 stored Threads, newest first and with none
\* left out between two of them; for a page that is missing, not a string, not
\* a number, negative, 0 or 1 they are the positions 0 to 9 of the
\* created_at-descending order (so page 0 and page 1 return the same), and
\* for page n >= 2 the positions (n-1)*10 to (n-1)*10+9, as far as the store
\* has them.
C8_FindAllWindow ==
  (out.req.op = "findAll" /\ out.res.status = "success")
    => LET data == out.res.data
           n == Len(data)
           total == Cardinality(DOMAIN threads)
       IN  /\ out.res.code = 200
           /\ n <= 10
           /\ \A i \in 1..n : /\ data[i].id \in DOMAIN threads
                              /\ data[i] = threads[data[i].id]
           /\ \A i \in 1..(n - 1) :
                /\ data[i].created_at >= data[i + 1].created_at
                /\ Newer(data[i + 1]) = Newer(data[i]) + 1
           /\ \A c \in PageCases :
                c.query = out.req.page
                  => LET first == (c.page - 1) * 10
                     IN  /\ n = IF total >= first + 10 THEN 10
                                 ELSE IF total > first THEN total - first
                                 ELSE 0
                         /\ \A i \in 1..n : Newer(data[i]) = first + i - 1

\* C8 happens: findAll for page 0 returned the 10 newest of more than 20
\* stored Threads.
C8_Witness ==
  /\ out.req.op = "findAll"
  /\ out.req.page = StrPage(<<"0">>)
  /\ out.res.status = "success"
  /\ Len(out.res.data) = 10
  /\ Cardinality(DOMAIN threads) > 20
====
